---- MODULE Spec2Model ----
(***************************************************************************)
(* Model of the cluster-api manager entry point (main.go): flag            *)
(* configuration, manager construction with the read/write split client,   *)
(* registration of health checks, reconcilers and webhooks, and the        *)
(* manager run loop that dispatches reconcile invocations.                 *)
(***************************************************************************)
EXTENDS Integers, Sequences, FiniteSets, TLC

(***************************************************************************)
(* Bounds of the model.                                                    *)
(***************************************************************************)
\* largest value given to a -<kind>-concurrency flag
MaxConcurrency == 2
\* object names per kind in the store
MaxKeys == 2
\* objects present in the store
MaxObjects == 3
\* writes accepted by the store (its revision counter)
MaxRev == 1

(***************************************************************************)
(* Program constants.                                                      *)
(***************************************************************************)
\* default of the five -<kind>-concurrency flags
DefaultConcurrency == 10
Nil == "nil"

\* lastOp before any client operation
NoOp == [op |-> "none", servedBy |-> "none", rev |-> 0]

\* lastProbe before any probe
NoProbe == [endpoint |-> "none", ok |-> FALSE]

\* exitCode while the process is alive
NotExited == 0 - 1

Kinds == {"Cluster", "Machine", "MachineSet", "MachineDeployment", "MachinePool"}

\* the positive values a concurrency flag is given
ConcValues == 1..MaxConcurrency

AllObjects == Kinds \X (1..MaxKeys)

VARIABLES
    \* flags (main.go var block)
    enableLeaderElection,
    profilerAddress,
    webhookPort,
    clusterConcurrency,
    machineConcurrency,
    machineSetConcurrency,
    machineDeploymentConcurrency,
    machinePoolConcurrency,
    \* position of main() and the process exit status
    pc,
    idx,
    err,
    exitCode,
    \* the manager
    mgrState,
    client,
    readyzChecks,
    healthzChecks,
    controllers,
    webhooks,
    \* the store, the cache and the last client operation
    objects,
    storeRev,
    cacheRev,
    lastOp,
    \* work queues and workers of the registered controllers
    queue,
    requeue,
    inflight,
    \* the manager's leader election setting and the leadership lock
    election,
    lock,
    \* the profiler goroutine
    profiler,
    \* whether the store answers, and the last health probe served
    storeReachable,
    lastProbe

flags == <<enableLeaderElection, profilerAddress, webhookPort, clusterConcurrency, machineConcurrency, machineSetConcurrency,
           machineDeploymentConcurrency, machinePoolConcurrency>>
mainVars == <<pc, idx, err, exitCode>>
checkVars == <<readyzChecks, healthzChecks>>
regVars == <<controllers, webhooks>>
dataVars == <<storeRev, cacheRev, lastOp>>
queueVars == <<queue, requeue, inflight>>
envVars == <<election, lock, profiler, storeReachable, lastProbe>>

vars == <<flags, mainVars, mgrState, client, checkVars, regVars, objects, dataVars, queueVars,
          envVars>>

(***************************************************************************)
(* concurrency(c): the controller options carrying the bound.              *)
(***************************************************************************)
\* bug: the bound handed over is one more than the flag
concurrency_OffByOne(c) == [MaxConcurrentReconciles |-> c + 1]

concurrency(c) == [MaxConcurrentReconciles |-> c]

(***************************************************************************)
(* newClientFunc: reads go to the cache, writes and status writes to the   *)
(* client created by client.New; a client.New error is returned as is.     *)
(***************************************************************************)
\* bug: the reader is the direct client as well
newClientFunc_DirectReader(cache, c, newErr) ==
    IF newErr THEN [client |-> Nil, err |-> TRUE]
    ELSE [client |-> [Reader |-> c, Writer |-> c, StatusClient |-> c], err |-> FALSE]

\* bug: writes are handed to the cache
newClientFunc_CacheWriter(cache, c, newErr) ==
    IF newErr THEN [client |-> Nil, err |-> TRUE]
    ELSE [client |-> [Reader |-> cache, Writer |-> cache, StatusClient |-> c],
          err |-> FALSE]

newClientFunc(cache, c, newErr) ==
    IF newErr THEN [client |-> Nil, err |-> TRUE]
    ELSE [client |-> [Reader |-> cache, Writer |-> c, StatusClient |-> c], err |-> FALSE]

(***************************************************************************)
(* The reconcilers of setupReconcilers in source order, each with the flag *)
(* its SetupWithManager call is given.                                     *)
(***************************************************************************)
\* bug: the machine pool reconciler is not registered
ReconcilerOrder_NoMachinePool ==
    << [kind |-> "Cluster",           flag |-> clusterConcurrency],
       [kind |-> "Machine",           flag |-> machineConcurrency],
       [kind |-> "MachineSet",        flag |-> machineSetConcurrency],
       [kind |-> "MachineDeployment", flag |-> machineDeploymentConcurrency] >>

\* bug: the machine reconciler is given the cluster flag
ReconcilerOrder_ClusterFlagTwice ==
    << [kind |-> "Cluster",           flag |-> clusterConcurrency],
       [kind |-> "Machine",           flag |-> clusterConcurrency],
       [kind |-> "MachineSet",        flag |-> machineSetConcurrency],
       [kind |-> "MachineDeployment", flag |-> machineDeploymentConcurrency],
       [kind |-> "MachinePool",       flag |-> machinePoolConcurrency] >>

\* setupReconcilers with the machine reconciler set up before the cluster's
ReconcilerOrder_MachineFirst ==
    << [kind |-> "Machine",           flag |-> machineConcurrency],
       [kind |-> "Cluster",           flag |-> clusterConcurrency],
       [kind |-> "MachineSet",        flag |-> machineSetConcurrency],
       [kind |-> "MachineDeployment", flag |-> machineDeploymentConcurrency],
       [kind |-> "MachinePool",       flag |-> machinePoolConcurrency] >>

ReconcilerOrder ==
    << [kind |-> "Cluster",           flag |-> clusterConcurrency],
       [kind |-> "Machine",           flag |-> machineConcurrency],
       [kind |-> "MachineSet",        flag |-> machineSetConcurrency],
       [kind |-> "MachineDeployment", flag |-> machineDeploymentConcurrency],
       [kind |-> "MachinePool",       flag |-> machinePoolConcurrency] >>

(***************************************************************************)
(* The webhooks of setupWebhooks in source order.                          *)
(***************************************************************************)
\* bug: the v1alpha3 Machine webhook is not registered
WebhookOrder_NoMachineV3 ==
    << [version |-> "v1alpha2", type |-> "Cluster"],
       [version |-> "v1alpha3", type |-> "Cluster"],
       [version |-> "v1alpha2", type |-> "ClusterList"],
       [version |-> "v1alpha2", type |-> "Machine"],
       [version |-> "v1alpha2", type |-> "MachineList"],
       [version |-> "v1alpha2", type |-> "MachineSet"],
       [version |-> "v1alpha3", type |-> "MachineSet"],
       [version |-> "v1alpha2", type |-> "MachineSetList"],
       [version |-> "v1alpha2", type |-> "MachineDeployment"],
       [version |-> "v1alpha3", type |-> "MachineDeployment"],
       [version |-> "v1alpha2", type |-> "MachineDeploymentList"],
       [version |-> "v1alpha3", type |-> "MachinePool"] >>

WebhookOrder ==
    << [version |-> "v1alpha2", type |-> "Cluster"],
       [version |-> "v1alpha3", type |-> "Cluster"],
       [version |-> "v1alpha2", type |-> "ClusterList"],
       [version |-> "v1alpha2", type |-> "Machine"],
       [version |-> "v1alpha3", type |-> "Machine"],
       [version |-> "v1alpha2", type |-> "MachineList"],
       [version |-> "v1alpha2", type |-> "MachineSet"],
       [version |-> "v1alpha3", type |-> "MachineSet"],
       [version |-> "v1alpha2", type |-> "MachineSetList"],
       [version |-> "v1alpha2", type |-> "MachineDeployment"],
       [version |-> "v1alpha3", type |-> "MachineDeployment"],
       [version |-> "v1alpha2", type |-> "MachineDeploymentList"],
       [version |-> "v1alpha3", type |-> "MachinePool"] >>

(***************************************************************************)
(* os.Exit(code), or main returning: the process is gone.                  *)
(***************************************************************************)
Exit(code) ==
    /\ pc' = "exited"
    /\ idx' = 0
    /\ exitCode' = code

(***************************************************************************)
(* The state after flag.Parse().                                           *)
(***************************************************************************)
InitWith(ports, concs, others, populations, elections, profilers) ==
    /\ enableLeaderElection \in elections
    /\ profilerAddress \in profilers
    /\ webhookPort \in ports
    /\ clusterConcurrency \in concs
    /\ machineConcurrency \in concs
    /\ machineSetConcurrency \in others
    /\ machineDeploymentConcurrency \in others
    /\ machinePoolConcurrency \in others
    /\ pc = "StartProfiler"
    /\ idx = 0
    /\ err = FALSE
    /\ exitCode = NotExited
    /\ mgrState = "Uninitialized"
    /\ client = Nil
    /\ readyzChecks = {}
    /\ healthzChecks = {}
    /\ controllers = <<>>
    /\ webhooks = <<>>
    /\ objects \in populations
    /\ storeRev = 0
    /\ cacheRev = 0
    /\ lastOp = NoOp
    /\ queue = [k \in Kinds |-> <<>>]
    /\ requeue = {}
    /\ inflight = [o \in objects |-> 0]
    /\ election = FALSE
    /\ lock = "free"
    /\ profiler = "none"
    /\ storeReachable = TRUE
    /\ lastProbe = NoProbe

\* the objects the store may hold: at most n objects of the given kinds
Populations(kinds, n) == {s \in SUBSET (kinds \X (1..MaxKeys)) : Cardinality(s) <= n}

\* -webhook-port: 0, its default, or the port of the webhook server
Ports == {0, 9443}

\* -profiler-address: "", its default, or an address to listen on
ProfilerAddresses == {"", "localhost:6060"}

\* every concurrency flag at its default, either mode, at most one object in the store
Init ==
    InitWith(Ports, {DefaultConcurrency}, {DefaultConcurrency}, Populations(Kinds, 1),
             BOOLEAN, ProfilerAddresses)

\* -cluster-concurrency and -machine-concurrency set on the command line,
\* clusters and machines in the store
InitControllers ==
    InitWith(Ports, ConcValues, {DefaultConcurrency},
             Populations({"Cluster", "Machine"}, MaxObjects), {FALSE}, {""})

(***************************************************************************)
(* main: the profiler.  With a profiler address, http.ListenAndServe runs  *)
(* in a goroutine of its own and main goes on at once; what ListenAndServe *)
(* returns is logged with klog.Info.                                       *)
(***************************************************************************)
StartProfiler ==
    /\ pc = "StartProfiler"
    /\ profiler' = IF profilerAddress # "" THEN "spawned" ELSE "none"
    /\ pc' = "NewManager"
    /\ UNCHANGED <<flags, idx, err, exitCode, mgrState, client, checkVars, regVars, objects,
                   dataVars, queueVars, election, lock, storeReachable, lastProbe>>

\* the goroutine: ListenAndServe bound the address and serves
ProfilerServes ==
    /\ pc # "exited"
    /\ profiler = "spawned"
    /\ profiler' = "serving"
    /\ UNCHANGED <<flags, mainVars, mgrState, client, checkVars, regVars, objects, dataVars,
                   queueVars, election, lock, storeReachable, lastProbe>>

\* the goroutine with klog.Fatal in the place of klog.Info
ProfilerReturns_Fatal ==
    /\ pc # "exited"
    /\ profiler \in {"spawned", "serving"}
    /\ profiler' = "returned"
    /\ Exit(255)
    /\ UNCHANGED <<flags, err, mgrState, client, checkVars, regVars, objects, dataVars,
                   queueVars, election, lock, storeReachable, lastProbe>>

\* the goroutine: ListenAndServe returned its error, at once or after
\* serving, and klog.Info logged it
ProfilerReturns ==
    /\ pc # "exited"
    /\ profiler \in {"spawned", "serving"}
    /\ profiler' = "returned"
    /\ UNCHANGED <<flags, mainVars, mgrState, client, checkVars, regVars, objects, dataVars,
                   queueVars, election, lock, storeReachable, lastProbe>>

(***************************************************************************)
(* main: the options handed to ctrl.NewManager.                            *)
(***************************************************************************)
\* options that leave leader election off whatever the flag says
ManagerOptions_NoElection ==
    [LeaderElection |-> FALSE,
     LeaderElectionID |-> "controller-leader-election-capi",
     Port |-> webhookPort]

ManagerOptions ==
    [LeaderElection |-> enableLeaderElection,
     LeaderElectionID |-> "controller-leader-election-capi",
     Port |-> webhookPort]

(***************************************************************************)
(* main: ctrl.NewManager, which builds the client with newClientFunc.      *)
(***************************************************************************)
NewManager ==
    /\ pc = "NewManager"
    /\ \E newErr \in BOOLEAN, mgrErr \in BOOLEAN :
         LET r == newClientFunc("cache", "direct", newErr) IN
         /\ err' = (r.err \/ mgrErr)
         /\ IF r.err \/ mgrErr
            THEN /\ Exit(1)
                 /\ UNCHANGED <<client, mgrState, election>>
            ELSE /\ client' = r.client
                 /\ election' = ManagerOptions.LeaderElection
                 /\ mgrState' = "Configured"
                 /\ pc' = "AddReadyzCheck"
                 /\ UNCHANGED <<idx, exitCode>>
    /\ UNCHANGED <<flags, checkVars, regVars, objects, dataVars, queueVars, lock, profiler,
                   storeReachable, lastProbe>>

(***************************************************************************)
(* setupChecks.                                                            *)
(***************************************************************************)
\* a setupChecks that registers the readiness check in reconciliation mode only
AddReadyzCheck_ReconcilersOnly ==
    /\ pc = "AddReadyzCheck"
    /\ \E e \in BOOLEAN :
         /\ err' = e
         /\ IF e
            THEN /\ Exit(1)
                 /\ UNCHANGED readyzChecks
            ELSE /\ readyzChecks' = IF webhookPort = 0 THEN readyzChecks \cup {"ping"}
                                                      ELSE readyzChecks
                 /\ pc' = "AddHealthzCheck"
                 /\ UNCHANGED <<idx, exitCode>>
    /\ UNCHANGED mgrState
    /\ UNCHANGED <<flags, envVars, client, healthzChecks, regVars, objects, dataVars, queueVars>>

AddReadyzCheck ==
    /\ pc = "AddReadyzCheck"
    /\ \E e \in BOOLEAN :
         /\ err' = e
         /\ IF e
            THEN /\ Exit(1)
                 /\ UNCHANGED readyzChecks
            ELSE /\ readyzChecks' = readyzChecks \cup {"ping"}
                 /\ pc' = "AddHealthzCheck"
                 /\ UNCHANGED <<idx, exitCode>>
    /\ UNCHANGED mgrState
    /\ UNCHANGED <<flags, envVars, client, healthzChecks, regVars, objects, dataVars, queueVars>>

\* bug: the error of AddHealthzCheck is logged and main goes on
AddHealthzCheck_IgnoresError ==
    /\ pc = "AddHealthzCheck"
    /\ \E e \in BOOLEAN :
         /\ err' = e
         /\ healthzChecks' = IF e THEN healthzChecks ELSE healthzChecks \cup {"ping"}
         /\ pc' = "setupReconcilers"
         /\ UNCHANGED <<idx, exitCode>>
    /\ UNCHANGED mgrState
    /\ UNCHANGED <<flags, envVars, client, readyzChecks, regVars, objects, dataVars, queueVars>>

AddHealthzCheck ==
    /\ pc = "AddHealthzCheck"
    /\ \E e \in BOOLEAN :
         /\ err' = e
         /\ IF e
            THEN /\ Exit(1)
                 /\ UNCHANGED healthzChecks
            ELSE /\ healthzChecks' = healthzChecks \cup {"ping"}
                 /\ pc' = "setupReconcilers"
                 /\ UNCHANGED <<idx, exitCode>>
    /\ UNCHANGED mgrState
    /\ UNCHANGED <<flags, envVars, client, readyzChecks, regVars, objects, dataVars, queueVars>>

(***************************************************************************)
(* SetupWithManager of a reconciler and SetupWebhookWithManager of an API  *)
(* type, when they succeed: the manager holds one more binding or handler. *)
(***************************************************************************)
SetupWithManager(kind, options) ==
    Append(controllers, [kind |-> kind,
                         MaxConcurrentReconciles |-> options.MaxConcurrentReconciles])

SetupWebhookWithManager(obj) == Append(webhooks, obj)

(***************************************************************************)
(* setupReconcilers: returns at once when the webhook port is set,         *)
(* otherwise registers the five reconcilers in order.                      *)
(***************************************************************************)
\* bug: the reconcilers are installed whatever the webhook port
ReconcilersSkipped_Never == FALSE

ReconcilersSkipped == webhookPort # 0

setupReconcilers ==
    /\ pc = "setupReconcilers"
    /\ IF ReconcilersSkipped
       THEN pc' = "setupWebhooks" /\ idx' = 0
       ELSE pc' = "SetupWithManager" /\ idx' = 1
    /\ UNCHANGED <<flags, envVars, err, exitCode, mgrState, client, checkVars, regVars, objects,
                   dataVars, queueVars>>

RegisterReconciler ==
    /\ pc = "SetupWithManager"
    /\ idx \in 1..Len(ReconcilerOrder)
    /\ \E e \in BOOLEAN :
         /\ err' = e
         /\ IF e
            THEN /\ Exit(1)
                 /\ UNCHANGED controllers
            ELSE /\ controllers' = SetupWithManager(ReconcilerOrder[idx].kind,
                                                    concurrency(ReconcilerOrder[idx].flag))
                 /\ IF idx = Len(ReconcilerOrder)
                    THEN pc' = "setupWebhooks" /\ idx' = 0
                    ELSE pc' = pc /\ idx' = idx + 1
                 /\ UNCHANGED exitCode
    /\ UNCHANGED mgrState
    /\ UNCHANGED <<flags, envVars, client, checkVars, webhooks, objects, dataVars, queueVars>>

(***************************************************************************)
(* setupWebhooks: returns at once when the webhook port is 0, otherwise    *)
(* registers the webhooks in order.                                        *)
(***************************************************************************)
WebhooksSkipped == webhookPort = 0

\* bug: the manager is started in the background before the webhooks are set up
setupWebhooks_ManagerStarted ==
    /\ pc = "setupWebhooks"
    /\ IF WebhooksSkipped
       THEN pc' = "Start" /\ idx' = 0 /\ UNCHANGED mgrState
       ELSE pc' = "SetupWebhookWithManager" /\ idx' = 1 /\ mgrState' = "CacheSyncing"
    /\ UNCHANGED <<flags, envVars, err, exitCode, client, checkVars, regVars, objects,
                   dataVars, queueVars>>

setupWebhooks ==
    /\ pc = "setupWebhooks"
    /\ IF WebhooksSkipped
       THEN pc' = "Start" /\ idx' = 0
       ELSE pc' = "SetupWebhookWithManager" /\ idx' = 1
    /\ UNCHANGED <<flags, envVars, err, exitCode, mgrState, client, checkVars, regVars, objects,
                   dataVars, queueVars>>

RegisterWebhook ==
    /\ pc = "SetupWebhookWithManager"
    /\ idx \in 1..Len(WebhookOrder)
    /\ \E e \in BOOLEAN :
         /\ err' = e
         /\ IF e
            THEN /\ Exit(1)
                 /\ UNCHANGED webhooks
            ELSE /\ webhooks' = SetupWebhookWithManager(WebhookOrder[idx])
                 /\ IF idx = Len(WebhookOrder)
                    THEN pc' = "Start" /\ idx' = 0
                    ELSE pc' = pc /\ idx' = idx + 1
                 /\ UNCHANGED exitCode
    /\ UNCHANGED mgrState
    /\ UNCHANGED <<flags, envVars, client, checkVars, controllers, objects, dataVars, queueVars>>

(***************************************************************************)
(* main: mgr.Start(ctrl.SetupSignalHandler()).  The call blocks while the  *)
(* manager runs; an error it returns ends the process with status 1, a nil *)
(* return lets main return (status 0).                                     *)
(***************************************************************************)
\* a manager that runs its controllers without waiting for the cache
Start_NoSync ==
    /\ pc = "Start"
    /\ pc' = "mgr.Start"
    /\ mgrState' = "Running"
    /\ UNCHANGED <<flags, envVars, idx, err, exitCode, client, checkVars, regVars, objects,
                   dataVars, queueVars>>

Start ==
    /\ pc = "Start"
    /\ pc' = "mgr.Start"
    /\ mgrState' = "CacheSyncing"
    /\ UNCHANGED <<flags, envVars, idx, err, exitCode, client, checkVars, regVars, objects,
                   dataVars, queueVars>>

\* the leadership lock once the process is gone
Released == IF lock = "self" THEN "free" ELSE lock

StartReturnsError ==
    /\ pc = "mgr.Start"
    /\ err' = TRUE
    /\ mgrState' = "Terminated"
    /\ lock' = Released
    /\ Exit(1)
    /\ UNCHANGED <<flags, client, checkVars, regVars, objects, dataVars, queueVars, election,
                   profiler, storeReachable, lastProbe>>

\* a main that exits with status 1 also when mgr.Start returns nil
StartReturnsNil_NonZero ==
    /\ pc = "mgr.Start"
    /\ mgrState = "ShuttingDown"
    /\ \A o \in objects : inflight[o] = 0
    /\ err' = FALSE
    /\ mgrState' = "Terminated"
    /\ lock' = Released
    /\ Exit(1)
    /\ UNCHANGED <<flags, client, checkVars, regVars, objects, dataVars, queueVars, election,
                   profiler, storeReachable, lastProbe>>

StartReturnsNil ==
    /\ pc = "mgr.Start"
    /\ mgrState = "ShuttingDown"
    /\ \A o \in objects : inflight[o] = 0
    /\ err' = FALSE
    /\ mgrState' = "Terminated"
    /\ lock' = Released
    /\ Exit(0)
    /\ UNCHANGED <<flags, client, checkVars, regVars, objects, dataVars, queueVars, election,
                   profiler, storeReachable, lastProbe>>

(***************************************************************************)
(* The manager's run loop: cache sync, then dispatch until the signal.     *)
(***************************************************************************)
CacheSynced ==
    /\ mgrState = "CacheSyncing"
    /\ storeReachable
    /\ election => lock = "self"
    /\ mgrState' = "Running"
    /\ UNCHANGED <<flags, envVars, mainVars, client, checkVars, regVars, objects, dataVars,
                   queueVars>>

Signal ==
    /\ mgrState \in {"CacheSyncing", "Running"}
    /\ mgrState' = "ShuttingDown"
    /\ UNCHANGED <<flags, envVars, mainVars, client, checkVars, regVars, objects, dataVars,
                   queueVars>>

(***************************************************************************)
(* Leader election: the lock named by LeaderElectionID is held by at most  *)
(* one replica; a manager with leader election waits for it.               *)
(***************************************************************************)
AcquireLeadership ==
    /\ pc = "mgr.Start"
    /\ election
    /\ mgrState = "CacheSyncing"
    /\ lock = "free"
    /\ lock' = "self"
    /\ UNCHANGED <<flags, mainVars, mgrState, client, checkVars, regVars, objects, dataVars,
                   queueVars, election, profiler, storeReachable, lastProbe>>

\* another replica takes the lock, or gives it up
OtherReplica ==
    /\ pc # "exited"
    /\ enableLeaderElection
    /\ lock \in {"free", "other"}
    /\ lock' = IF lock = "free" THEN "other" ELSE "free"
    /\ UNCHANGED <<flags, mainVars, mgrState, client, checkVars, regVars, objects, dataVars,
                   queueVars, election, profiler, storeReachable, lastProbe>>

(***************************************************************************)
(* The store: it may stop answering and answer again.                      *)
(***************************************************************************)
StoreConnection ==
    /\ pc = "mgr.Start"
    /\ storeReachable' = ~storeReachable
    /\ UNCHANGED <<flags, mainVars, mgrState, client, checkVars, regVars, objects, dataVars,
                   queueVars, election, lock, profiler, lastProbe>>

(***************************************************************************)
(* The health endpoint, served while the manager runs: a probe passes when *)
(* every registered check does.                                            *)
(***************************************************************************)
\* healthz.Ping: returns nil
Ping == TRUE

\* a readiness check that waits for the cache and for leadership
ReadyzCheck_WhenSynced(name) == mgrState \in {"Running", "ShuttingDown"}

\* the check setupChecks registers under a name with AddReadyzCheck
ReadyzCheck(name) == Ping

\* a liveness check that asks the store
HealthzCheck_NeedsStore(name) == storeReachable

\* the check setupChecks registers under a name with AddHealthzCheck
HealthzCheck(name) == Ping

Probe(endpoint, ok) ==
    /\ pc = "mgr.Start"
    /\ lastProbe' = [endpoint |-> endpoint, ok |-> ok]
    /\ UNCHANGED <<flags, mainVars, mgrState, client, checkVars, regVars, objects, dataVars,
                   queueVars, election, lock, profiler, storeReachable>>

ProbeReadyz == Probe("readyz", \A name \in readyzChecks : ReadyzCheck(name))

ProbeHealthz == Probe("healthz", \A name \in healthzChecks : HealthzCheck(name))

(***************************************************************************)
(* Controllers: a work queue and a pool of workers per registered kind.    *)
(***************************************************************************)
Range(q) == {q[i] : i \in 1..Len(q)}

Registered(kind) == \E i \in 1..Len(controllers) : controllers[i].kind = kind

\* the bound of the binding of a registered kind
BoundOf(kind) ==
    LET i == CHOOSE j \in 1..Len(controllers) : controllers[j].kind = kind
    IN controllers[i].MaxConcurrentReconciles

\* the number of reconcile invocations of a kind that are running
InFlightOf(kind) ==
    LET RECURSIVE Sum(_)
        Sum(S) == IF S = {} THEN 0
                  ELSE LET o == CHOOSE x \in S : TRUE IN inflight[o] + Sum(S \ {o})
    IN Sum({o \in objects : o[1] = kind})

\* bug: every request is queued, whatever is queued or running
Add_NoDedup(o) ==
    [queue |-> [queue EXCEPT ![o[1]] = Append(@, o)], requeue |-> requeue]

\* adding a key to the work queue of its kind: a key that is already
\* waiting is not added again, a key that is being reconciled is marked and
\* added when its invocation is done
Add(o) ==
    IF o \in Range(queue[o[1]]) \/ o \in requeue
    THEN [queue |-> queue, requeue |-> requeue]
    ELSE IF inflight[o] > 0
         THEN [queue |-> queue, requeue |-> requeue \cup {o}]
         ELSE [queue |-> [queue EXCEPT ![o[1]] = Append(@, o)], requeue |-> requeue]

\* an event for an object of a registered kind (watch or resync)
Enqueue(o) ==
    /\ mgrState = "Running"
    /\ Registered(o[1])
    /\ queue' = Add(o).queue
    /\ requeue' = Add(o).requeue
    /\ UNCHANGED <<flags, envVars, mainVars, mgrState, client, checkVars, regVars, objects, dataVars,
                   inflight>>

\* a free worker of the kind takes the next key
Dispatch(kind) ==
    /\ mgrState = "Running"
    /\ Registered(kind)
    /\ queue[kind] # <<>>
    /\ InFlightOf(kind) < BoundOf(kind)
    /\ inflight' = [inflight EXCEPT ![Head(queue[kind])] = @ + 1]
    /\ queue' = [queue EXCEPT ![kind] = Tail(@)]
    /\ UNCHANGED <<flags, envVars, mainVars, mgrState, client, checkVars, regVars, objects, dataVars,
                   requeue>>

\* a reconcile invocation returns; a marked key, or one the reconciler asks
\* to see again, goes back to the queue
Done(o, again) ==
    /\ inflight[o] > 0
    /\ pc = "mgr.Start"
    /\ inflight' = [inflight EXCEPT ![o] = @ - 1]
    /\ IF o \in requeue \/ again
       THEN /\ queue' = [queue EXCEPT ![o[1]] = Append(@, o)]
            /\ requeue' = requeue \ {o}
       ELSE UNCHANGED <<queue, requeue>>
    /\ UNCHANGED <<flags, envVars, mainVars, mgrState, client, checkVars, regVars, objects, dataVars>>

(***************************************************************************)
(* Operations a running reconcile invocation issues through the client     *)
(* built by newClientFunc, and the cache's watch.                          *)
(***************************************************************************)
Reconciling == pc = "mgr.Start" /\ \E o \in objects : inflight[o] > 0

\* what a read served by the handle returns: the revision the handle holds
Serve(handle) == IF handle = "cache" THEN cacheRev ELSE storeRev

\* Get/List are methods of the embedded Reader
Read ==
    /\ Reconciling
    /\ lastOp' = [op |-> "read", servedBy |-> client.Reader, rev |-> Serve(client.Reader)]
    /\ UNCHANGED <<flags, envVars, mainVars, mgrState, client, checkVars, regVars, objects,
                   storeRev, cacheRev, queueVars>>

\* what serving a write does to the store and to the cache
Apply(handle) ==
    IF handle = "cache"
    THEN /\ cacheRev < MaxRev
         /\ cacheRev' = cacheRev + 1
         /\ UNCHANGED storeRev
    ELSE /\ storeReachable
         /\ storeRev < MaxRev
         /\ storeRev' = storeRev + 1
         /\ UNCHANGED cacheRev

\* Create/Update/Patch/Delete are methods of the embedded Writer
Write ==
    /\ Reconciling
    /\ Apply(client.Writer)
    /\ lastOp' = [op |-> "write", servedBy |-> client.Writer, rev |-> storeRev']
    /\ UNCHANGED <<flags, envVars, mainVars, mgrState, client, checkVars, regVars, objects, queueVars>>

\* Status() is the method of the embedded StatusClient
WriteStatus ==
    /\ Reconciling
    /\ Apply(client.StatusClient)
    /\ lastOp' = [op |-> "writeStatus", servedBy |-> client.StatusClient,
                  rev |-> storeRev']
    /\ UNCHANGED <<flags, envVars, mainVars, mgrState, client, checkVars, regVars, objects, queueVars>>

\* the cache learns of a store change through its watch
WatchPropagate ==
    /\ pc = "mgr.Start"
    /\ storeReachable
    /\ cacheRev < storeRev
    /\ cacheRev' = cacheRev + 1
    /\ UNCHANGED <<flags, envVars, mainVars, mgrState, client, checkVars, regVars, objects, storeRev,
                   lastOp, queueVars>>

\* the steps of main and of the manager it starts
NextMain ==
    \/ StartProfiler
    \/ NewManager
    \/ AddReadyzCheck
    \/ AddHealthzCheck
    \/ setupReconcilers
    \/ RegisterReconciler
    \/ setupWebhooks
    \/ RegisterWebhook
    \/ Start
    \/ StartReturnsError
    \/ StartReturnsNil
    \/ CacheSynced
    \/ Signal

\* the steps of the controllers' queues and workers
NextControllers ==
    \/ \E o \in objects : Enqueue(o)
    \/ \E kind \in Kinds : Dispatch(kind)
    \/ \E o \in objects, again \in BOOLEAN : Done(o, again)

\* the client operations of the reconcilers and the cache's watch
NextClient ==
    \/ Read
    \/ Write
    \/ WriteStatus
    \/ WatchPropagate

\* the profiler goroutine, the other replicas, the store and the probes
NextEnvironment ==
    \/ ProfilerServes
    \/ ProfilerReturns
    \/ AcquireLeadership
    \/ OtherReplica
    \/ StoreConnection
    \/ ProbeReadyz
    \/ ProbeHealthz

Next == NextMain \/ NextControllers \/ NextClient \/ NextEnvironment

Spec == Init /\ [][Next]_vars

\* the manager and its controllers under load, the reconcilers' own client
\* operations left out
SpecControllers == InitControllers /\ [][NextMain \/ NextControllers]_vars

\* what flag.IntVar accepts for a concurrency flag: any integer, of which
\* a negative one, zero, one and the default
IntValues == {0 - 1, 0, 1, DefaultConcurrency}

\* -cluster-concurrency and -machine-concurrency over the integers, empty store
InitFlags == InitWith(Ports, IntValues, {DefaultConcurrency}, {{}}, {FALSE}, {""})

\* the boot sequence and the run loop for every such command line
SpecFlags == InitFlags /\ [][NextMain]_vars

\* the same, where every reconcile invocation returns and mgr.Start returns
\* once it can: workers are goroutines the scheduler keeps running
SpecShutdown ==
    /\ SpecControllers
    /\ WF_vars(\E o \in objects, again \in BOOLEAN : Done(o, again))
    /\ WF_vars(StartReturnsNil)

(***************************************************************************)
(* Properties.                                                             *)
(***************************************************************************)
ControllerKinds == {controllers[i].kind : i \in 1..Len(controllers)}

Versions == {"v1alpha2", "v1alpha3"}

\* C1: the boot modes exclude each other: with a webhook port no reconciler
\* is ever registered, without one no webhook is, and no state has both.
C1_ModesExclusive ==
    /\ webhookPort # 0 => controllers = <<>>
    /\ webhookPort = 0 => webhooks = <<>>
    /\ ~(controllers # <<>> /\ webhooks # <<>>)

\* the webhook server is running with all its webhooks and no reconciler
C1_Witness ==
    /\ webhookPort # 0
    /\ mgrState = "Running"
    /\ Len(webhooks) = Len(WebhookOrder)

\* C2: a read issued through the client is served by the cache, never by
\* the direct client, whatever writes happened before it.
C2_ReadsFromCache ==
    lastOp.op = "read" => lastOp.servedBy = "cache" /\ lastOp.rev <= cacheRev

\* a read served while the store is ahead of the cache
C2_Witness ==
    /\ lastOp.op = "read"
    /\ storeRev > cacheRev

\* C3: write and writeStatus are served by the direct client and leave the
\* cache as it is; the cache changes only through its watch.
C3_WritesBypassCache ==
    /\ [][(Write \/ WriteStatus) => (lastOp'.servedBy = "direct" /\ cacheRev' = cacheRev)]_vars
    /\ [][cacheRev' # cacheRev => WatchPropagate]_vars

\* a write reached the store and the cache has not seen it yet
C3_Witness ==
    /\ lastOp.op \in {"write", "writeStatus"}
    /\ lastOp.rev = storeRev
    /\ cacheRev < storeRev

\* C4: with webhook port 0, when the run loop starts exactly the five
\* reconcilers are registered, one per kind, and no webhook.
C4_FiveReconcilers ==
    (webhookPort = 0 /\ mgrState \in {"CacheSyncing", "Running", "ShuttingDown"}) =>
        /\ Len(controllers) = 5
        /\ ControllerKinds = Kinds
        /\ webhooks = <<>>

\* the manager runs in reconciler mode
C4_Witness ==
    /\ webhookPort = 0
    /\ mgrState = "Running"
    /\ Len(controllers) = 5

\* C5 as stated: with a webhook port, no reconciler is registered and every
\* managed kind has a webhook in both v1alpha2 and v1alpha3.
C5_Original ==
    (webhookPort # 0 /\ mgrState \in {"CacheSyncing", "Running", "ShuttingDown"}) =>
        /\ controllers = <<>>
        /\ \A k \in Kinds, v \in Versions :
             [version |-> v, type |-> k] \in Range(webhooks)

\* C5 amended: with a webhook port, no reconciler is registered; Cluster,
\* Machine, MachineSet and MachineDeployment have a webhook in v1alpha2 and
\* in v1alpha3, MachinePool has one in v1alpha3 only.
C5_WebhooksPerKind ==
    (webhookPort # 0 /\ mgrState \in {"CacheSyncing", "Running", "ShuttingDown"}) =>
        /\ controllers = <<>>
        /\ \A k \in Kinds \ {"MachinePool"}, v \in Versions :
             [version |-> v, type |-> k] \in Range(webhooks)
        /\ [version |-> "v1alpha3", type |-> "MachinePool"] \in Range(webhooks)
        /\ [version |-> "v1alpha2", type |-> "MachinePool"] \notin Range(webhooks)

\* the manager is being started in webhook mode
C5_Witness ==
    /\ webhookPort # 0
    /\ mgrState = "CacheSyncing"
    /\ [version |-> "v1alpha3", type |-> "MachinePool"] \in Range(webhooks)

\* the flag that configures a kind
FlagFor(kind) ==
    CASE kind = "Cluster" -> clusterConcurrency
      [] kind = "Machine" -> machineConcurrency
      [] kind = "MachineSet" -> machineSetConcurrency
      [] kind = "MachineDeployment" -> machineDeploymentConcurrency
      [] kind = "MachinePool" -> machinePoolConcurrency

\* the number of times a key is waiting for a worker
Waiting(o) ==
    Cardinality({i \in 1..Len(queue[o[1]]) : queue[o[1]][i] = o})
    + (IF o \in requeue THEN 1 ELSE 0)

\* C6: a kind registered with bound N never has more than N reconcile
\* invocations running, however many keys are queued.
C6_AtMostBound ==
    \A k \in Kinds : Registered(k) => InFlightOf(k) <= FlagFor(k)

\* a kind runs at its bound while another key of the kind waits
C6_Witness ==
    \E k \in Kinds :
        /\ Registered(k)
        /\ InFlightOf(k) = FlagFor(k)
        /\ queue[k] # <<>>

\* C7: each binding carries the bound of its own kind's flag, and a kind
\* with a waiting key and fewer invocations than its bound can dispatch,
\* whatever the other kinds are running.
C7_PerKindBudget ==
    /\ \A i \in 1..Len(controllers) :
         controllers[i].MaxConcurrentReconciles = FlagFor(controllers[i].kind)
    /\ \A k \in Kinds :
         (/\ mgrState = "Running"
          /\ Registered(k)
          /\ queue[k] # <<>>
          /\ InFlightOf(k) < FlagFor(k)) => ENABLED Dispatch(k)

\* clusters and machines, configured with different bounds, each run at
\* their own bound at the same time
C7_Witness ==
    /\ mgrState = "Running"
    /\ clusterConcurrency # machineConcurrency
    /\ InFlightOf("Cluster") = clusterConcurrency
    /\ InFlightOf("Machine") = machineConcurrency

\* C8: a key has at most one reconcile invocation running and at most one
\* waiting, also when the bound of its kind is greater than 1.
C8_OnePerKey ==
    \A o \in objects : inflight[o] <= 1 /\ Waiting(o) <= 1

\* a key is being reconciled, a new request for it waits, and a worker of
\* its kind is free
C8_Witness ==
    \E o \in objects :
        /\ inflight[o] = 1
        /\ o \in requeue
        /\ mgrState = "Running"
        /\ InFlightOf(o[1]) < BoundOf(o[1])

BootPcs ==
    {"NewManager", "AddReadyzCheck", "AddHealthzCheck", "SetupWithManager",
     "SetupWebhookWithManager"}

NotStarted == {"Uninitialized", "Configured"}

\* C9: when manager construction, a check registration, a reconciler
\* registration or a webhook registration fails, the process exits with
\* status 1, takes no further step, and the manager was never started.
C9_FatalBootErrors ==
    /\ [][(pc \in BootPcs /\ err') =>
            (pc' = "exited" /\ exitCode' = 1 /\ mgrState' = mgrState)]_vars
    /\ [][pc # "exited"]_vars
    /\ [](pc \in BootPcs => mgrState \in NotStarted)

\* the third reconciler failed to register
C9_Witness ==
    /\ pc = "exited"
    /\ err
    /\ exitCode = 1
    /\ mgrState = "Configured"
    /\ Len(controllers) = 2

Synced == mgrState \in {"Running", "ShuttingDown"}

ProbedWithoutStore(endpoint) ==
    /\ mgrState = "Running"
    /\ ~storeReachable
    /\ lastProbe' # lastProbe
    /\ lastProbe'.endpoint = endpoint

C13_OnlyLeaderDispatches ==
    /\ [](pc = "mgr.Start" /\ enableLeaderElection /\ lock # "self" =>
            mgrState # "Running" /\ \A o \in objects : inflight[o] = 0)
    /\ [][(enableLeaderElection /\ \E o \in objects : inflight'[o] > inflight[o]) =>
            lock = "self"]_vars

\* the elected replica is reconciling an object
C13_Witness ==
    /\ pc = "mgr.Start"
    /\ enableLeaderElection
    /\ lock = "self"
    /\ \E o \in objects : inflight[o] > 0

\* C14: without a profiler address no profiler task is started; with one,
\* the task runs beside main: the boot sequence has a step to take whatever
\* the task is doing, and the task's failure, at start or while serving,
\* changes neither the position of main, nor the exit status, nor the state
\* of the manager.
C14_ProfilerIsolated ==
    /\ [](profilerAddress = "" => profiler = "none")
    /\ [](pc \notin {"mgr.Start", "exited"} => ENABLED NextMain)
    /\ [][(profiler' = "returned" /\ profiler # "returned") =>
            (mainVars' = mainVars /\ mgrState' = mgrState)]_vars

\* the profiler failed and the manager is running all the same
C14_Witness ==
    /\ profilerAddress # ""
    /\ profiler = "returned"
    /\ mgrState = "Running"
    /\ pc = "mgr.Start"

\* C15: once the manager is shutting down no reconcile invocation is
\* started; the invocations in flight return and the process then ends; it
\* exits with status 0 when mgr.Start returned no error and with a non-zero
\* status when mgr.Start returned an error.
C15_Shutdown ==
    /\ [][mgrState = "ShuttingDown" =>
            \A o \in objects : inflight'[o] <= inflight[o]]_vars
    /\ [][(pc = "mgr.Start" /\ pc' = "exited") =>
            (exitCode' = 0 <=> ~err')]_vars
    /\ (mgrState = "ShuttingDown") ~> (pc = "exited")

\* a graceful exit that left an event in the queue undispatched
C15_Witness ==
    /\ pc = "exited"
    /\ mgrState = "Terminated"
    /\ ~err
    /\ exitCode = 0
    /\ \E kind \in Kinds : queue[kind] # <<>>

\* C16: every registered reconciler has a concurrency bound of at least 1,
\* whatever values the concurrency flags were given.
C16_Original ==
    \A i \in 1..Len(controllers) : controllers[i].MaxConcurrentReconciles >= 1

Dispatched == \E o \in objects : inflight'[o] > inflight[o]

\* C17: a reconcile invocation is started only in Running, and Running is
\* entered only from CacheSyncing, with the store answering and, under
\* leader election, the lock held; up to then nothing is in flight.
C17_NoDispatchBeforeSync ==
    /\ [][Dispatched => mgrState = "Running"]_vars
    /\ [][(mgrState' = "Running" /\ mgrState # "Running") =>
            (mgrState = "CacheSyncing" /\ storeReachable /\ (election => lock = "self"))]_vars
    /\ [](mgrState \in NotStarted \cup {"CacheSyncing"} =>
            \A o \in objects : inflight[o] = 0)

\* without leader election, the first invocation after the cache synced
C17_Witness ==
    /\ pc = "mgr.Start"
    /\ ~enableLeaderElection
    /\ mgrState = "Running"
    /\ \E o \in objects : inflight[o] = 1

KindOrder == <<"Cluster", "Machine", "MachineSet", "MachineDeployment", "MachinePool">>

\* C18: reconcilers are registered in the order cluster, machine, machine
\* set, machine deployment, machine pool and webhooks in their source order;
\* the k-th registration is attempted with exactly the first k-1 made, and
\* when it fails the process exits with those k-1 and attempts no other.
C18_FailFastInOrder ==
    /\ [](/\ Len(controllers) <= Len(KindOrder)
          /\ \A i \in 1..Len(controllers) : controllers[i].kind = KindOrder[i])
    /\ [](webhooks = SubSeq(WebhookOrder, 1, Len(webhooks)))
    /\ [](pc = "SetupWithManager" => Len(controllers) = idx - 1)
    /\ [](pc = "SetupWebhookWithManager" => Len(webhooks) = idx - 1)
    /\ [][(pc \in {"SetupWithManager", "SetupWebhookWithManager"} /\ err') =>
            (pc' = "exited" /\ regVars' = regVars)]_vars
    /\ [][pc = "exited" => regVars' = regVars]_vars

\* the seventh webhook registration failed, six were made
C18_Witness ==
    /\ pc = "exited"
    /\ err
    /\ mgrState = "Configured"
    /\ Len(webhooks) = 6
    /\ webhooks = SubSeq(WebhookOrder, 1, 6)

RegistrationPcs ==
    {"setupReconcilers", "SetupWithManager", "setupWebhooks", "SetupWebhookWithManager"}

\* C19: in either mode, the readiness check and the liveness check, each
\* named "ping", are registered after the manager is constructed and before
\* any reconciler or webhook registration is attempted; whenever a reconciler
\* or a webhook is registered both checks are.
C19_ChecksBeforeRegistrations ==
    /\ []((pc \in RegistrationPcs \/ Len(controllers) + Len(webhooks) > 0) =>
            (readyzChecks = {"ping"} /\ healthzChecks = {"ping"}))
    /\ [][checkVars' # checkVars =>
            (mgrState = "Configured" /\ Len(controllers) + Len(webhooks) = 0)]_vars

\* webhook mode: the first webhook is about to be set up, both checks made
C19_Witness ==
    /\ webhookPort # 0
    /\ pc = "SetupWebhookWithManager"
    /\ idx = 1
    /\ readyzChecks = {"ping"}
    /\ healthzChecks = {"ping"}

====
